---- MODULE Spec2Model ----
(***************************************************************************)
(* Slot-filling intake dialogue of the scheduling agent: the inline field  *)
(* inferencer, the LLM extraction merge, the stage nodes of the LangGraph  *)
(* pipeline and the /stream endpoint that runs one turn per request.       *)
(***************************************************************************)
EXTENDS Integers, Sequences, FiniteSets, TLC

\* ---------------------------------------------------------------- bounds
MaxDigress == 1

\* ------------------------------------------------------ Python encodings
\* Optional[str] fields hold None or a string; Optional[bool] holds None,
\* PyTrue or PyFalse; Optional[int] holds NoneInt or an integer.
None == "<None>"
NoneInt == -1
PyTrue == "True"
PyFalse == "False"
NoMatch == "<NoMatch>"

\* date.today() as read by the age validator
TodayY == 2026
TodayM == 11
TodayD == 2

Fields ==
  {"name", "dob", "age", "doctor", "location", "problem", "problem_description",
   "email", "phone", "insurance_carrier", "insurance_member_id", "insurance_group",
   "returning_patient", "appointment_duration_min", "appointment_date",
   "appointment_start", "appointment_end"}

IntFields == {"age", "appointment_duration_min"}

\* PatientIntake(): every field at its default
PatientIntake ==
  [name |-> None, dob |-> None, age |-> NoneInt, doctor |-> None, location |-> None,
   problem |-> None, problem_description |-> None, email |-> None, phone |-> None,
   insurance_carrier |-> None, insurance_member_id |-> None, insurance_group |-> None,
   returning_patient |-> None, appointment_duration_min |-> NoneInt,
   appointment_date |-> None, appointment_start |-> None, appointment_end |-> None]

\* Python truthiness of an Optional[str] / Optional[int] / Optional[bool]
truthy(v) == v # None /\ v # ""
truthy_int(v) == v # NoneInt /\ v # 0
truthy_bool(v) == v = PyTrue

EmptyDict == [k \in {} |-> None]

\* the context markers the nodes emit
Markers ==
  {"ask_problem", "ask_problem_details", "ask_returning", "ask_doctor", "ask_date",
   "ask_email", "ask_phone", "ask_insurance_carrier", "ask_insurance_member_id",
   "ask_insurance_group", "done"}

\* ------------------------------------------------------------ the inputs
\* replies a caller types
Replies ==
  {"", "fever", "3 days, mild", "no", "yes", "any", "2025-09-20", "a@b.com",
   "9876543210", "alice@example.com", "Dr Smith", "Aetna M123 G456", "Aetna",
   "M123", "G456", "1850-01-01", "1990-99-01"}

\* ------------------------------------------- string and regex primitives
\* Python's str methods and the module's regular expressions, evaluated on
\* the strings the inputs above can produce.
strip(s) == s

lower(s) ==
  CASE s = "Aetna" -> "aetna"
    [] s = "Aetna M123 G456" -> "aetna m123 g456"
    [] s = "Aetna M123 G456." -> "aetna m123 g456."
    [] s = "Aetna." -> "aetna."
    [] s = "Any" -> "any"
    [] s = "Dr" -> "dr"
    [] s = "Dr Smith" -> "dr smith"
    [] s = "Dr Smith." -> "dr smith."
    [] s = "Dr. Smith" -> "dr. smith"
    [] s = "G456" -> "g456"
    [] s = "G456." -> "g456."
    [] s = "M123" -> "m123"
    [] s = "M123." -> "m123."
    [] s = "Smith" -> "smith"
    [] OTHER -> s

rstrip_dot(s) ==
  CASE s = "." -> ""
    [] s = "1850-01-01." -> "1850-01-01"
    [] s = "1990-99-01." -> "1990-99-01"
    [] s = "2025-09-20." -> "2025-09-20"
    [] s = "3 days, mild." -> "3 days, mild"
    [] s = "9876543210." -> "9876543210"
    [] s = "Aetna M123 G456." -> "Aetna M123 G456"
    [] s = "Aetna." -> "Aetna"
    [] s = "Dr Smith." -> "Dr Smith"
    [] s = "G456." -> "G456"
    [] s = "M123." -> "M123"
    [] s = "a@b.com." -> "a@b.com"
    [] s = "alice@example.com." -> "alice@example.com"
    [] s = "any." -> "any"
    [] s = "fever." -> "fever"
    [] s = "no." -> "no"
    [] s = "yes." -> "yes"
    [] OTHER -> s

append_dot(s) ==
  CASE s = "" -> "."
    [] s = "1850-01-01" -> "1850-01-01."
    [] s = "1990-99-01" -> "1990-99-01."
    [] s = "2025-09-20" -> "2025-09-20."
    [] s = "3 days, mild" -> "3 days, mild."
    [] s = "9876543210" -> "9876543210."
    [] s = "Aetna" -> "Aetna."
    [] s = "Aetna M123 G456" -> "Aetna M123 G456."
    [] s = "Dr Smith" -> "Dr Smith."
    [] s = "G456" -> "G456."
    [] s = "M123" -> "M123."
    [] s = "a@b.com" -> "a@b.com."
    [] s = "alice@example.com" -> "alice@example.com."
    [] s = "any" -> "any."
    [] s = "fever" -> "fever."
    [] s = "no" -> "no."
    [] s = "yes" -> "yes."
    [] OTHER -> NoMatch

split(s) ==
  CASE s = "" -> <<>>
    [] s = "3 days, mild" -> <<"3", "days,", "mild">>
    [] s = "Dr Smith" -> <<"Dr", "Smith">>
    [] s = "Aetna M123 G456" -> <<"Aetna", "M123", "G456">>
    [] OTHER -> <<s>>

len(s) ==
  CASE s = "" -> 0
    [] s = "fever" -> 5
    [] s = "3 days, mild" -> 12
    [] s = "no" -> 2
    [] s = "yes" -> 3
    [] s = "any" -> 3
    [] s = "2025-09-20" -> 10
    [] s = "a@b.com" -> 7
    [] s = "9876543210" -> 10
    [] s = "alice@example.com" -> 17
    [] s = "Dr Smith" -> 8
    [] s = "Aetna M123 G456" -> 15
    [] s = "Aetna" -> 5
    [] s = "M123" -> 4
    [] s = "G456" -> 4
    [] s = "1850-01-01" -> 10
    [] s = "1990-99-01" -> 10
    [] OTHER -> 0

EMAIL_RE_search(s) ==
  CASE s = "a@b.com" -> "a@b.com"
    [] s = "alice@example.com" -> "alice@example.com"
    [] OTHER -> NoMatch

DOB_RE_search(s) ==
  CASE s = "2025-09-20" -> "2025-09-20"
    [] s = "1990-99-01" -> "1990-99-01"
    [] OTHER -> NoMatch

NAME_RE_search(s) == NoMatch

DR_RE_search(s) ==
  CASE s = "Dr Smith" -> "Dr Smith"
    [] OTHER -> NoMatch

lower_startswith_dr_dot(s) == FALSE

replace_Dr(s) ==
  CASE s = "Dr Smith" -> "Dr. Smith"
    [] OTHER -> s

keep_digits_plus(s) ==
  CASE s = "fever" -> ""
    [] s = "3 days, mild" -> "3"
    [] s = "no" -> ""
    [] s = "yes" -> ""
    [] s = "any" -> ""
    [] s = "2025-09-20" -> "20250920"
    [] s = "a@b.com" -> ""
    [] s = "alice@example.com" -> ""
    [] s = "Dr Smith" -> ""
    [] s = "Aetna M123 G456" -> "123456"
    [] s = "Aetna" -> ""
    [] s = "M123" -> "123"
    [] s = "G456" -> "456"
    [] s = "1850-01-01" -> "18500101"
    [] s = "1990-99-01" -> "19909901"
    [] s = "none" -> ""
    [] s = "self-pay" -> ""
    [] s = "2025-10-01" -> "20251001"
    [] s = "it hurts" -> ""
    [] s = "1990-06-15" -> "19900615"
    [] s = "Any" -> ""
    [] s = "x@y.org" -> ""
    [] s = "bob@invalid" -> ""
    [] OTHER -> s

count_digits(s) ==
  CASE s = "123" -> 3
    [] s = "12345" -> 5
    [] s = "123456" -> 6
    [] s = "18500101" -> 8
    [] s = "19900615" -> 8
    [] s = "19909901" -> 8
    [] s = "20250920" -> 8
    [] s = "20251001" -> 8
    [] s = "3" -> 1
    [] s = "456" -> 3
    [] s = "9876543210" -> 10
    [] OTHER -> 0

date_fullmatch(s) ==
  CASE s = "2025-09-20" -> TRUE
    [] s = "1850-01-01" -> TRUE
    [] s = "1990-99-01" -> TRUE
    [] OTHER -> FALSE

contains(s, k) ==
  (s = "fever" /\ k = "fever")

strptime(s) ==
  CASE s = "1850-01-01" -> <<1850, 1, 1>>
    [] s = "1990-06-15" -> <<1990, 6, 15>>
    [] s = "1990-12-25" -> <<1990, 12, 25>>
    [] s = "2025-09-20" -> <<2025, 9, 20>>
    [] s = "2025-10-01" -> <<2025, 10, 1>>
    [] OTHER -> <<>>

\* t[:50]; every reply above is shorter than 50 characters
prefix50(s) == s

\* EmailStr validation of pydantic on the e-mail strings that can occur
valid_email(s) == s \in {"a@b.com", "alice@example.com", "x@y.org"}

\* ------------------------------------------------------ FieldInferencer
doctor_null_tokens == {"any", "any doctor", "no", "none", "na"}
returning_yes_tokens == {"yes", "y", "yeah", "yep", "visited", "i have"}
returning_no_tokens == {"no", "n", "new", "first time"}
inline_self_pay_tokens == {"no", "none", "no insurance", "self pay", "self-pay"}
self_pay_tokens == {"self-pay", "self pay", "no", "none"}

symptom_map_problem ==
  << <<"coughing", "cough">>, <<"cough", "cough">>, <<"fever", "fever">>,
     <<"allergy", "allergies">>, <<"allergies", "allergies">>,
     <<"tooth", "tooth pain">>, <<"toothache", "tooth pain">>,
     <<"headache", "headache">>, <<"cold", "cold">>, <<"pain", "pain">> >>

symptom_map_fallback ==
  << <<"coughing", "cough">>, <<"cough", "cough">>, <<"fever", "fever">>,
     <<"allergy", "allergies">>, <<"allergies", "allergies">>,
     <<"toothache", "tooth pain">>, <<"tooth", "tooth pain">>,
     <<"headache", "headache">>, <<"cold", "cold">>, <<"pain", "pain">> >>

symptom_words ==
  {"fever", "allergy", "allergies", "toothache", "tooth", "pain", "cough",
   "coughing", "cold", "headache"}

\* for k, v in symptom_map.items(): if k in low: label = v; break
RECURSIVE first_label(_, _, _)
first_label(map, low, i) ==
  IF i > Len(map) THEN None
  ELSE IF contains(low, map[i][1]) THEN map[i][2]
  ELSE first_label(map, low, i + 1)

\* doc = m.group(0); add the period after "Dr" when it is missing; strip
dr_name(t) ==
  LET doc == DR_RE_search(t)
  IN strip(IF lower_startswith_dr_dot(doc) THEN doc ELSE replace_Dr(doc))

\* insurance_parts that names its keys carrier, member_id and group
insurance_parts_short_keys(t) ==
  LET p0 == split(t)
      parts == IF Len(p0) > 0 /\ lower(p0[1]) = "yes" THEN Tail(p0) ELSE p0
  IN (IF Len(parts) >= 1 THEN "carrier" :> parts[1] ELSE EmptyDict)
     @@ (IF Len(parts) >= 2 THEN "member_id" :> parts[2] ELSE EmptyDict)
     @@ (IF Len(parts) >= 3 THEN "group" :> parts[3] ELSE EmptyDict)

\* parts = t.split(), a leading "yes" dropped, up to three tokens positionally
insurance_parts(t) ==
  LET p0 == split(t)
      parts == IF Len(p0) > 0 /\ lower(p0[1]) = "yes" THEN Tail(p0) ELSE p0
  IN (IF Len(parts) >= 1 THEN "insurance_carrier" :> parts[1] ELSE EmptyDict)
     @@ (IF Len(parts) >= 2 THEN "insurance_member_id" :> parts[2] ELSE EmptyDict)
     @@ (IF Len(parts) >= 3 THEN "insurance_group" :> parts[3] ELSE EmptyDict)

Return(d) == [ret |-> TRUE, d |-> d]
FallThrough == [ret |-> FALSE, d |-> EmptyDict]

\* the context-specific rules: the one block whose marker is context_step
context_rule(t, low, context_step) ==
  CASE context_step = "ask_doctor" ->
         IF low \in doctor_null_tokens THEN Return("doctor" :> "any doctor")
         ELSE IF DR_RE_search(t) # NoMatch THEN Return("doctor" :> dr_name(t))
         ELSE FallThrough
    [] context_step = "ask_returning" ->
         IF low \in returning_yes_tokens THEN Return("_yes_no" :> PyTrue)
         ELSE IF low \in returning_no_tokens THEN Return("_yes_no" :> PyFalse)
         ELSE FallThrough
    [] context_step = "ask_date" ->
         IF date_fullmatch(t) THEN Return("appointment_date" :> t) ELSE FallThrough
    [] context_step = "ask_email" ->
         IF EMAIL_RE_search(t) # NoMatch THEN Return("email" :> EMAIL_RE_search(t))
         ELSE FallThrough
    [] context_step = "ask_phone" ->
         IF count_digits(keep_digits_plus(t)) >= 10
         THEN Return("phone" :> keep_digits_plus(t)) ELSE FallThrough
    [] context_step = "ask_insurance_carrier" ->
         IF low \in inline_self_pay_tokens
         THEN Return(("insurance_carrier" :> "self-pay")
                     @@ ("insurance_member_id" :> "") @@ ("insurance_group" :> ""))
         ELSE IF DOMAIN insurance_parts(t) # {} THEN Return(insurance_parts(t))
         ELSE FallThrough
    [] context_step = "ask_insurance_member_id" ->
         IF low \in {"no", "none"} THEN Return("insurance_member_id" :> "")
         ELSE Return("insurance_member_id" :> t)
    [] context_step = "ask_insurance_group" ->
         IF low \in {"no", "none"} THEN Return("insurance_group" :> "")
         ELSE Return("insurance_group" :> t)
    [] context_step = "ask_problem" ->
         LET label == first_label(symptom_map_problem, low, 1)
         IN Return("problem" :> (IF truthy(label) THEN label
                                 ELSE IF len(t) > 50 THEN prefix50(t) ELSE t))
    [] context_step = "ask_problem_details" ->
         Return("problem_description" :> append_dot(rstrip_dot(strip(t))))
    [] OTHER -> FallThrough

\* fallback_rules without its closing rule "date outside ask_date -> dob"
fallback_rules_without_date(t, low) ==
  IF EMAIL_RE_search(t) # NoMatch THEN "email" :> EMAIL_RE_search(t)
  ELSE IF count_digits(keep_digits_plus(t)) >= 10 THEN "phone" :> keep_digits_plus(t)
  ELSE IF DOB_RE_search(t) # NoMatch THEN "dob" :> DOB_RE_search(t)
  ELSE IF NAME_RE_search(t) # NoMatch THEN "name" :> strip(NAME_RE_search(t))
  ELSE IF low \in doctor_null_tokens THEN "doctor" :> "any doctor"
  ELSE IF DR_RE_search(t) # NoMatch THEN "doctor" :> dr_name(t)
  ELSE IF \E w \in symptom_words : contains(low, w)
       THEN "problem" :> first_label(symptom_map_fallback, low, 1)
  ELSE EmptyDict

\* the context-agnostic fallbacks, first match wins
fallback_rules(t, low) ==
  IF EMAIL_RE_search(t) # NoMatch THEN "email" :> EMAIL_RE_search(t)
  ELSE IF count_digits(keep_digits_plus(t)) >= 10 THEN "phone" :> keep_digits_plus(t)
  ELSE IF DOB_RE_search(t) # NoMatch THEN "dob" :> DOB_RE_search(t)
  ELSE IF NAME_RE_search(t) # NoMatch THEN "name" :> strip(NAME_RE_search(t))
  ELSE IF low \in doctor_null_tokens THEN "doctor" :> "any doctor"
  ELSE IF DR_RE_search(t) # NoMatch THEN "doctor" :> dr_name(t)
  ELSE IF \E w \in symptom_words : contains(low, w)
       THEN "problem" :> first_label(symptom_map_fallback, low, 1)
  ELSE IF date_fullmatch(t) THEN "dob" :> t
  ELSE EmptyDict

infer_inline_updates(user_text, context_step) ==
  LET t == strip(user_text)
      low == lower(t)
      r == context_rule(t, low, context_step)
  IN IF r.ret THEN r.d ELSE fallback_rules(t, low)

\* --------------------------------------------------- GenerativeExtractor
\* What extract_chain returns for a reply: its text is a JSON object, a
\* code-fenced one, prose with an object inside, or unparsable; obj lists the
\* object's key/value pairs in order.
LLMOutputs ==
  { [form |-> "json", obj |-> <<>>],
    [form |-> "garbage", obj |-> <<>>],
    [form |-> "json",
     obj |-> << <<"name", "">>, <<"dob", "">>, <<"doctor", "">>, <<"location", "">>,
                <<"problem", "">>, <<"problem_description", "">>, <<"email", "">>,
                <<"phone", "">>, <<"insurance_carrier", "">>,
                <<"insurance_member_id", "">>, <<"insurance_group", "">> >>],
    [form |-> "fenced",
     obj |-> << <<"insurance_carrier", "none">>, <<"insurance_member_id", "M123">> >>],
    [form |-> "embedded", obj |-> << <<"appointment_date", "2025-10-01">> >>],
    [form |-> "json",
     obj |-> << <<"problem_description", "it hurts">>, <<"dob", "1990-06-15">> >>],
    [form |-> "json",
     obj |-> << <<"doctor", "Any">>, <<"problem", "fever">>, <<"email", "x@y.org">>,
                <<"phone", "9876543210">> >>] }

\* json.loads on the text, on each fenced part, on the {...} substring; else {}
safe_json_loads(raw) ==
  IF raw.form \in {"json", "fenced", "embedded"} THEN raw.obj ELSE <<>>

\* data.pop(key, None)
pop(data, key) == SelectSeq(data, LAMBDA kv : kv[1] # key)

has_key(data, key) == \E i \in 1..Len(data) : data[i][1] = key

\* getattr(patient, k, None) in (None, "", False)
is_blank(p, k) ==
  IF k \notin Fields THEN TRUE
  ELSE IF k \in IntFields THEN p[k] = NoneInt \/ p[k] = 0
  ELSE p[k] \in {None, "", PyFalse}

\* merge_data that clears a populated field the extractor names
RECURSIVE merge_data_toggling(_, _, _)
merge_data_toggling(p, data, i) ==
  IF i > Len(data) THEN [patient |-> p, error |-> ""]
  ELSE LET k == data[i][1]
           v == data[i][2]
       IN IF strip(v) = "" THEN merge_data_toggling(p, data, i + 1)
          ELSE IF k \notin Fields THEN [patient |-> p, error |-> "ValueError"]
          ELSE IF ~is_blank(p, k)
               THEN merge_data_toggling([p EXCEPT ![k] = None], data, i + 1)
          ELSE merge_data_toggling([p EXCEPT ![k] = v], data, i + 1)

\* merge_data without the "field is blank" test: the extractor overwrites
RECURSIVE merge_data_overwriting(_, _, _)
merge_data_overwriting(p, data, i) ==
  IF i > Len(data) THEN [patient |-> p, error |-> ""]
  ELSE LET k == data[i][1]
           v == data[i][2]
       IN IF strip(v) = "" THEN merge_data_overwriting(p, data, i + 1)
          ELSE IF k \notin Fields THEN [patient |-> p, error |-> "ValueError"]
          ELSE merge_data_overwriting([p EXCEPT ![k] = v], data, i + 1)

\* the merge loop over data.items(): blank strings are skipped, a value is
\* written only into a blank field, setattr of an unknown name raises
RECURSIVE merge_data(_, _, _)
merge_data(p, data, i) ==
  IF i > Len(data) THEN [patient |-> p, error |-> ""]
  ELSE LET k == data[i][1]
           v == data[i][2]
       IN IF strip(v) = "" THEN merge_data(p, data, i + 1)
          ELSE IF ~is_blank(p, k) THEN merge_data(p, data, i + 1)
          ELSE IF k \notin Fields THEN [patient |-> p, error |-> "ValueError"]
          ELSE merge_data([p EXCEPT ![k] = v], data, i + 1)

\* the "before" validator of PatientIntake: age from dob when age is absent
derive_age_from_dob(p) ==
  IF p.age = NoneInt /\ truthy(p.dob) /\ strptime(p.dob) # <<>>
  THEN LET dob == strptime(p.dob)
           before == TodayM < dob[2] \/ (TodayM = dob[2] /\ TodayD < dob[3])
       IN [p EXCEPT !.age = TodayY - dob[1] - (IF before THEN 1 ELSE 0)]
  ELSE p

\* PatientIntake(**patient.model_dump()): the validator, then field validation
revalidate(p) ==
  IF p.email # None /\ ~valid_email(p.email)
  THEN [patient |-> p, error |-> "ValidationError"]
  ELSE [patient |-> derive_age_from_dob(p), error |-> ""]

\* apply_inline that starts from an empty record instead of the caller's
apply_inline_replacing(p, inline) ==
  [f \in Fields |-> IF f \in DOMAIN inline THEN inline[f] ELSE PatientIntake[f]]

\* for k, v in inline.items(): setattr(patient, k, v); "_yes_no" is no field
apply_inline(p, inline) ==
  [f \in Fields |-> IF f \in DOMAIN inline THEN inline[f] ELSE p[f]]

\* guard_data that lets every key of the extractor's mapping through
guard_data_unguarded(data, context_step) == data

\* the two context guards on the extractor's mapping
guard_data(data, context_step) ==
  LET d1 == IF has_key(data, "problem_description") /\ context_step # "ask_problem_details"
            THEN pop(data, "problem_description") ELSE data
  IN IF context_step = "ask_date" /\ has_key(d1, "dob") THEN pop(d1, "dob") ELSE d1

\* extract_chain.invoke failing: the connection error or timeout it raises
OracleFailure == "APITimeoutError"

\* what the use of a non-mapping as a mapping raises: "key in data" on a
\* number, data.items() on an array
data_error(raw) ==
  CASE raw.form = "number" -> "TypeError"
    [] raw.form = "array" -> "AttributeError"
    [] OTHER -> ""

\* node_extract; a raised exception leaves the caller's record as mutated so far
node_extract(state, raw) ==
  LET context_step == state.next_step
      inline == infer_inline_updates(state.input_text, context_step)
      p1 == apply_inline(state.patient, inline)
      data == guard_data(safe_json_loads(raw), context_step)
      m == merge_data(p1, data, 1)
      v == revalidate(m.patient)
  IN IF raw.form = "raises"
     THEN [state |-> state, error |-> OracleFailure, mutated |-> p1]
     ELSE IF data_error(raw) # ""
     THEN [state |-> state, error |-> data_error(raw), mutated |-> p1]
     ELSE IF m.error # "" THEN [state |-> state, error |-> m.error, mutated |-> m.patient]
     ELSE IF v.error # "" THEN [state |-> state, error |-> v.error, mutated |-> m.patient]
     ELSE [state |-> [state EXCEPT !.patient = v.patient, !.inline = inline],
           error |-> "", mutated |-> m.patient]

\* ----------------------------------------------------------- DialogStages
\* assign_duration that ignores the returning status
assign_duration_flat(returning) == 60

assign_duration(returning) == IF truthy_bool(returning) THEN 30 ELSE 60

str_int(n) == CASE n = 30 -> "30" [] n = 60 -> "60" [] OTHER -> "?"

msg_problem == <<"In a few words, what's the main issue?">>
msg_problem_details == <<"Thanks. Could you describe it a bit more?">>
msg_returning == <<"Have you visited us before? (yes/no)">>
msg_doctor == <<"Do you have a preferred doctor? If yes, share the name; else say 'any'.">>
msg_date(mins) ==
  <<"Okay. Your appointment will be ", str_int(mins),
    " minutes. Which date works for you? (YYYY-MM-DD)">>
msg_email_returning == <<"To send your confirmation, what's your email?">>
msg_email_new == <<"Share your email so I can send the confirmation & intake form.">>
msg_phone == <<"And your phone number for SMS reminders?">>
msg_insurance_post_booking ==
  <<"Before your visit, do you have insurance? If yes, please share your insurance carrier name.">>
msg_insurance == <<"Do you have insurance? If yes, please share your insurance carrier name.">>
msg_member_id == <<"Please share your insurance member ID.">>
msg_group == <<"And the insurance group number?">>
msg_ready(doctor, date) ==
  <<"Great. I'll fetch available slots for ", doctor, " on ", date,
    ". Please pick one in the UI and I'll confirm.">>

\* state["message"] = message; state["next_step"] = step; return state
ask(state, message, step) == [state EXCEPT !.message = message, !.next_step = step]

node_ensure_problem(state) ==
  LET p == state.patient
  IN IF ~truthy(p.problem) THEN ask(state, msg_problem, "ask_problem")
     ELSE IF ~truthy(p.problem_description)
          THEN ask(state, msg_problem_details, "ask_problem_details")
     ELSE state

node_ask_returning(state) ==
  LET p == state.patient
      inline == state.inline
  IN IF p.returning_patient = None
     THEN IF "_yes_no" \in DOMAIN inline
          THEN [state EXCEPT
                  !.patient = [p EXCEPT
                     !.returning_patient = inline["_yes_no"],
                     !.appointment_duration_min = assign_duration(inline["_yes_no"])],
                  !.inline = [k \in (DOMAIN inline) \ {"_yes_no"} |-> inline[k]]]
          ELSE ask(state, msg_returning, "ask_returning")
     ELSE state

\* normalize_doctor that drops a null preference instead of rewriting it
normalize_doctor_clearing(p) ==
  IF lower(strip(p.doctor)) \in doctor_null_tokens
  THEN [p EXCEPT !.doctor = None] ELSE p

\* doctor literal normalisation shared by node_ensure_doctor and node_finalize
normalize_doctor(p) ==
  IF lower(strip(p.doctor)) \in doctor_null_tokens
  THEN [p EXCEPT !.doctor = "any doctor"] ELSE p

node_ensure_doctor(state) ==
  LET p == state.patient
  IN IF ~truthy(p.doctor) THEN ask(state, msg_doctor, "ask_doctor")
     ELSE [state EXCEPT !.patient = normalize_doctor(p)]

\* mins = p.appointment_duration_min or assign_duration(p.returning_patient)
ask_date(state) ==
  LET p == state.patient
      mins == IF truthy_int(p.appointment_duration_min)
              THEN p.appointment_duration_min ELSE assign_duration(p.returning_patient)
  IN ask([state EXCEPT !.patient = [p EXCEPT !.appointment_duration_min = mins]],
         msg_date(mins), "ask_date")

node_ensure_date(state) ==
  IF ~truthy(state.patient.appointment_date) THEN ask_date(state) ELSE state

node_ensure_contact(state) ==
  LET p == state.patient
  IN IF truthy_bool(p.returning_patient)
     THEN IF ~truthy(p.email) THEN ask(state, msg_email_returning, "ask_email")
          ELSE IF ~truthy(p.phone) THEN ask(state, msg_phone, "ask_phone")
          ELSE state
     ELSE IF ~truthy(p.email) THEN ask(state, msg_email_new, "ask_email")
          ELSE IF ~truthy(p.phone) THEN ask(state, msg_phone, "ask_phone")
          ELSE state

\* carrier_of that takes every record for an insured one
carrier_of_assumed(p) == "aetna"

\* carrier = (p.insurance_carrier or "").strip().lower()
carrier_of(p) == IF truthy(p.insurance_carrier) THEN lower(strip(p.insurance_carrier)) ELSE ""

\* nonblank that takes every value for blank
nonblank_never(v) == FALSE

\* (value or "").strip() is non-empty
nonblank(v) == truthy(v) /\ strip(v) # ""

self_pay(p) ==
  [p EXCEPT !.insurance_carrier = "self-pay", !.insurance_member_id = "",
            !.insurance_group = ""]

\* node_ensure_insurance without the skip for returning patients
node_ensure_insurance_for_everyone(state) ==
  LET p == state.patient
      carrier == carrier_of(p)
  IN IF ~state.booking_done THEN state
     ELSE IF carrier = ""
          THEN ask(state, msg_insurance_post_booking, "ask_insurance_carrier")
     ELSE IF carrier \in self_pay_tokens THEN [state EXCEPT !.patient = self_pay(p)]
     ELSE IF ~nonblank(p.insurance_member_id)
          THEN ask(state, msg_member_id, "ask_insurance_member_id")
     ELSE IF ~nonblank(p.insurance_group)
          THEN ask(state, msg_group, "ask_insurance_group")
     ELSE state

node_ensure_insurance(state) ==
  LET p == state.patient
      carrier == carrier_of(p)
  IN IF ~state.booking_done THEN state
     ELSE IF truthy_bool(p.returning_patient) THEN state
     ELSE IF carrier = ""
          THEN ask(state, msg_insurance_post_booking, "ask_insurance_carrier")
     ELSE IF carrier \in self_pay_tokens THEN [state EXCEPT !.patient = self_pay(p)]
     ELSE IF ~nonblank(p.insurance_member_id)
          THEN ask(state, msg_member_id, "ask_insurance_member_id")
     ELSE IF ~nonblank(p.insurance_group)
          THEN ask(state, msg_group, "ask_insurance_group")
     ELSE state

\* finalize_contact_date without the phone guard
finalize_contact_date_without_phone(state, msg_email) ==
  LET p == state.patient
  IN IF ~truthy(p.email) THEN ask(state, msg_email, "ask_email")
     ELSE IF ~truthy(p.appointment_date) THEN ask_date(state)
     ELSE ask(state, msg_ready(IF truthy(p.doctor) THEN p.doctor ELSE "any doctor",
                               p.appointment_date), "done")

\* the contact and date guards that close node_finalize
finalize_contact_date(state, msg_email) ==
  LET p == state.patient
  IN IF ~truthy(p.email) THEN ask(state, msg_email, "ask_email")
     ELSE IF ~truthy(p.phone) THEN ask(state, msg_phone, "ask_phone")
     ELSE IF ~truthy(p.appointment_date) THEN ask_date(state)
     ELSE ask(state, msg_ready(IF truthy(p.doctor) THEN p.doctor ELSE "any doctor",
                               p.appointment_date), "done")

\* node_finalize that takes a new patient's answer for no answer
node_finalize_reasking(state) ==
  LET p0 == state.patient
  IN IF ~truthy(p0.doctor) THEN ask(state, msg_doctor, "ask_doctor")
     ELSE
       LET p == normalize_doctor(p0)
           s == [state EXCEPT !.patient = p]
           carrier == carrier_of(p)
       IN IF ~truthy(p.problem) THEN ask(s, msg_problem, "ask_problem")
          ELSE IF ~truthy(p.problem_description)
               THEN ask(s, msg_problem_details, "ask_problem_details")
          ELSE IF ~truthy_bool(p.returning_patient)
               THEN ask(s, msg_returning, "ask_returning")
          ELSE finalize_contact_date(s, msg_email_returning)

\* node_finalize that asks for the description before the label
node_finalize_details_first(state) ==
  LET p0 == state.patient
  IN IF ~truthy(p0.doctor) THEN ask(state, msg_doctor, "ask_doctor")
     ELSE
       LET p == normalize_doctor(p0)
           s == [state EXCEPT !.patient = p]
           carrier == carrier_of(p)
       IN IF ~truthy(p.problem_description)
          THEN ask(s, msg_problem_details, "ask_problem_details")
          ELSE IF ~truthy(p.problem) THEN ask(s, msg_problem, "ask_problem")
          ELSE IF p.returning_patient = None THEN ask(s, msg_returning, "ask_returning")
          ELSE IF truthy_bool(p.returning_patient)
               THEN finalize_contact_date(s, msg_email_returning)
          ELSE IF carrier = "" THEN ask(s, msg_insurance, "ask_insurance_carrier")
          ELSE IF carrier \notin self_pay_tokens /\ ~nonblank(p.insurance_member_id)
               THEN ask(s, msg_member_id, "ask_insurance_member_id")
          ELSE IF carrier \notin self_pay_tokens /\ ~nonblank(p.insurance_group)
               THEN ask(s, msg_group, "ask_insurance_group")
          ELSE finalize_contact_date(s, msg_email_new)

node_finalize(state) ==
  LET p0 == state.patient
  IN IF ~truthy(p0.doctor) THEN ask(state, msg_doctor, "ask_doctor")
     ELSE
       LET p == normalize_doctor(p0)
           s == [state EXCEPT !.patient = p]
           carrier == carrier_of(p)
       IN IF ~truthy(p.problem) THEN ask(s, msg_problem, "ask_problem")
          ELSE IF ~truthy(p.problem_description)
               THEN ask(s, msg_problem_details, "ask_problem_details")
          ELSE IF p.returning_patient = None THEN ask(s, msg_returning, "ask_returning")
          ELSE IF truthy_bool(p.returning_patient)
               THEN finalize_contact_date(s, msg_email_returning)
          ELSE IF carrier = "" THEN ask(s, msg_insurance, "ask_insurance_carrier")
          ELSE IF carrier \notin self_pay_tokens /\ ~nonblank(p.insurance_member_id)
               THEN ask(s, msg_member_id, "ask_insurance_member_id")
          ELSE IF carrier \notin self_pay_tokens /\ ~nonblank(p.insurance_group)
               THEN ask(s, msg_group, "ask_insurance_group")
          ELSE finalize_contact_date(s, msg_email_new)

\* ------------------------------------------------------------ Orchestrator
\* a node is invoked on the state its predecessor returned
\* the compiled graph: START -> extract -> ensure_problem -> ask_returning ->
\* ensure_doctor -> ensure_date -> ensure_contact -> finalize ->
\* ensure_insurance -> END; every edge is unconditional
stages(state) ==
  CHOOSE out \in
    {node_ensure_insurance(s7) : s7 \in
      {node_finalize(s6) : s6 \in
        {node_ensure_contact(s5) : s5 \in
          {node_ensure_date(s4) : s4 \in
            {node_ensure_doctor(s3) : s3 \in
              {node_ask_returning(s2) : s2 \in
                {node_ensure_problem(s1) : s1 \in {state}}}}}}}} : TRUE

continue(e) == IF e.error # "" THEN e ELSE [e EXCEPT !.state = stages(e.state)]

intake_graph(state, raw) ==
  CHOOSE out \in {continue(e) : e \in {node_extract(state, raw)}} : TRUE

\* the state a caller hands to the graph
graph_input(q, p, step, done) ==
  [input_text |-> q, patient |-> p, message |-> <<>>, next_step |-> step,
   inline |-> EmptyDict, booking_done |-> done]


\* ------------------------------------------------------------ Scheduling
\* a time of day "HH:MM" is the pair <<HH, MM>> (<<>>: none); intervals are
\* <<start, end>> in minutes since midnight
t2min(hhmm) == hhmm[1] * 60 + hhmm[2]

min2t(x) == <<x \div 60, x % 60>>

\* list.insert keeping the order of Python tuples
RECURSIVE insert_sorted(_, _)
insert_sorted(x, s) ==
  IF s = <<>> THEN <<x>>
  ELSE IF x[1] < Head(s)[1] \/ (x[1] = Head(s)[1] /\ x[2] < Head(s)[2]) THEN <<x>> \o s
  ELSE <<Head(s)>> \o insert_sorted(x, Tail(s))

\* sorted that leaves the list in the order given
sorted_as_given(s) == s

RECURSIVE sorted(_)
sorted(s) == IF s = <<>> THEN <<>> ELSE insert_sorted(Head(s), sorted(Tail(s)))

\* the inner loop of _interval_subtract over busy_sorted[i..] for one free
\* window: what is left of the window and the pieces cut so far
RECURSIVE cut_window(_, _, _, _, _)
cut_window(cur_start, cur_end, busy_sorted, i, res) ==
  IF i > Len(busy_sorted) THEN [cur_start |-> cur_start, res |-> res]
  ELSE LET bs == busy_sorted[i][1]
           be == busy_sorted[i][2]
       IN IF be <= cur_start \/ bs >= cur_end
          THEN cut_window(cur_start, cur_end, busy_sorted, i + 1, res)
          ELSE LET res1 == IF bs <= cur_start THEN res
                           ELSE Append(res, <<cur_start, bs>>)
                   moved == IF cur_start >= be THEN cur_start ELSE be
               IN IF moved >= cur_end THEN [cur_start |-> moved, res |-> res1]
                  ELSE cut_window(moved, cur_end, busy_sorted, i + 1, res1)

\* the outer loop of _interval_subtract over free[j..]
RECURSIVE subtract_from(_, _, _, _)
subtract_from(free, busy_sorted, j, res) ==
  IF j > Len(free) THEN res
  ELSE LET c == cut_window(free[j][1], free[j][2], busy_sorted, 1, res)
       IN subtract_from(free, busy_sorted, j + 1,
                        IF c.cur_start < free[j][2]
                        THEN Append(c.res, <<c.cur_start, free[j][2]>>) ELSE c.res)

interval_subtract(free, busy_list) ==
  IF busy_list = <<>> THEN free ELSE subtract_from(free, sorted(busy_list), 1, <<>>)

\* ------------------------------------------------------------------ state
VARIABLES
  patient,        \* the record of the conversation after the last turn
  pre,            \* the record the last turn started from
  extracted,      \* the extractor's non-blank pairs the last turn merged, guards applied
  offered,        \* the keys the extractor's mapping gave a value, before the guards
  next_step,      \* the context marker the last turn emitted (None before any)
  message,        \* the message the last turn emitted
  inline,         \* what infer_inline_updates returned in the last turn
  input_text,     \* the reply the last turn consumed
  context_step,   \* the marker node_extract read in the last turn
  booking_done,   \* the booking flag the last turn ran with
  error,          \* the exception the last turn raised ("" when none)
  thread,         \* the thread id of the last /stream request
  SESSION_STORE,  \* fastapi_app.SESSION_STORE: thread id -> session
  returned,       \* per thread, the next_step of its last /stream response
  digress,        \* number of replies so far that did not answer the question
  pos,            \* how many replies of Script have been replayed (-1: left it)
  bookings,       \* the booking rows written so far, as <<workbook, thread id>>
  api_SESSION_STORE,  \* api.state.SESSION_STORE: thread id -> session
  pending,        \* the /stream requests the server accepted and has not answered
  BOOKINGS_XLSX,  \* storage/bookings.xlsx: whether it exists and its rows
  BOOKINGS_CSV,   \* storage/bookings.csv: whether it exists and its rows
  called,         \* the scheduling operation that ran last ("" before any)
  request,        \* doctor, date, duration_min and step_min of the last availability call
  free_windows,   \* the free windows the last operation started from
  busy,           \* the busy intervals the last operation read
  free_after_busy,  \* what _interval_subtract returned
  slots,          \* the slots _generate_slots has appended to out
  cursor          \* _generate_slots' position: window index w and time t

vars ==
  <<patient, pre, extracted, offered, next_step, message, inline, input_text,
    context_step, booking_done, error, thread, SESSION_STORE, returned, digress, pos,
    bookings, api_SESSION_STORE, pending, BOOKINGS_XLSX, BOOKINGS_CSV, called, request,
    free_windows, busy, free_after_busy, slots, cursor>>

conversation ==
  <<patient, pre, extracted, offered, next_step, message, booking_done, error, digress,
    pos>>
sessions == <<thread, SESSION_STORE, returned>>
booked == <<bookings, api_SESSION_STORE>>
loop == <<pending>>
calendar ==
  <<BOOKINGS_XLSX, BOOKINGS_CSV, called, request, free_windows, busy, free_after_busy,
    slots, cursor>>

Threads == {"t1", "t2"}

\* replies that do not answer the question asked
OffTopic == {"", "no", "2025-09-20", "a@b.com"}

\* replies that answer the question a marker stands for (None: the opening turn)
WellFormed(step) ==
  CASE step = None -> {""}
    [] step = "ask_doctor" -> {"any", "Dr Smith"}
    [] step = "ask_problem" -> {"fever"}
    [] step = "ask_problem_details" -> {"3 days, mild"}
    [] step = "ask_returning" -> {"yes", "no"}
    [] step = "ask_email" -> {"a@b.com"}
    [] step = "ask_phone" -> {"9876543210"}
    [] step = "ask_date" -> {"2025-09-20"}
    [] step = "ask_insurance_carrier" -> {"no", "Aetna"}
    [] step = "ask_insurance_member_id" -> {"M123"}
    [] step = "ask_insurance_group" -> {"G456"}
    [] OTHER -> {}

\* the replies of the end-to-end scenario
Script ==
  <<"", "fever", "3 days, mild", "no", "any", "2025-09-20", "a@b.com", "9876543210">>

NoExtraction == [form |-> "json", obj |-> <<>>]

\* the extractor found nothing in the reply
extracts_nothing(raw) ==
  \A i \in 1..Len(safe_json_loads(raw)) : strip(safe_json_loads(raw)[i][2]) = ""

\* the pairs of the extractor's mapping that reach the merge with a value
candidates(raw, step) ==
  SelectSeq(guard_data(safe_json_loads(raw), step), LAMBDA kv : strip(kv[2]) # "")

\* the keys of the extractor's mapping that carry a value
offered_keys(raw) ==
  {safe_json_loads(raw)[i][1] : i \in {j \in 1..Len(safe_json_loads(raw)) :
                                         strip(safe_json_loads(raw)[j][2]) # ""}}

\* what the extractor returns on the endpoint's turns
StreamOutputs ==
  {raw \in LLMOutputs :
     \A i \in 1..Len(raw.obj) : raw.obj[i][1] \in {"doctor", "problem", "email", "phone",
                                                  "appointment_date"}}

\* no conversation, no session, no booking, no request yet
Fresh ==
  /\ patient = PatientIntake
  /\ pre = PatientIntake
  /\ extracted = <<>>
  /\ offered = {}
  /\ next_step = None
  /\ message = <<>>
  /\ inline = EmptyDict
  /\ input_text = None
  /\ context_step = None
  /\ booking_done = FALSE
  /\ error = ""
  /\ thread = None
  /\ SESSION_STORE = [t \in {} |-> None]
  /\ returned = [t \in Threads |-> None]
  /\ digress = 0
  /\ pos = 0
  /\ bookings = {}
  /\ api_SESSION_STORE = [t \in {} |-> None]
  /\ pending = {}

\* no workbook and no scheduling call either
Init ==
  /\ Fresh
  /\ BOOKINGS_XLSX = [exists |-> FALSE, rows |-> <<>>]
  /\ BOOKINGS_CSV = [exists |-> FALSE, rows |-> <<>>]
  /\ called = ""
  /\ request = [doctor |-> "", date |-> "", duration_min |-> 30, step_min |-> 30]
  /\ free_windows = <<>>
  /\ busy = <<>>
  /\ free_after_busy = <<>>
  /\ slots = <<>>
  /\ cursor = [w |-> 1, t |-> 0]

\* One turn of the compiled graph for a caller that keeps the record, hands
\* back the marker of the previous turn as state["next_step"] and passes the
\* booking flag, which stays set once the booking is done.
Turn(q, done, raw) ==
  /\ booking_done => done
  /\ \E r \in {intake_graph(graph_input(q, patient, next_step, done), raw)} :
        /\ pre' = patient
        /\ extracted' = candidates(raw, next_step)
        /\ offered' = offered_keys(raw)
        /\ input_text' = q
        /\ context_step' = next_step
        /\ inline' = infer_inline_updates(q, next_step)
        /\ booking_done' = done
        /\ error' = r.error
        /\ IF r.error = ""
           THEN /\ patient' = r.state.patient
                /\ next_step' = r.state.next_step
                /\ message' = r.state.message
           ELSE /\ patient' = r.mutated
                /\ UNCHANGED <<next_step, message>>
  /\ pos' = IF pos >= 0 /\ pos < Len(Script) /\ q = Script[pos + 1]
               /\ ~done /\ extracts_nothing(raw)
            THEN pos + 1 ELSE -1
  /\ UNCHANGED <<sessions, booked, loop, calendar>>

\* the caller answers the question that was asked
Answer ==
  \E q \in WellFormed(next_step), done \in BOOLEAN, raw \in LLMOutputs :
     /\ Turn(q, done, raw)
     /\ UNCHANGED digress

\* the caller replies with something else; the extractor finds nothing in it
Digress ==
  \E q \in OffTopic \ WellFormed(next_step), done \in BOOLEAN :
     /\ digress < MaxDigress
     /\ Turn(q, done, NoExtraction)
     /\ digress' = digress + 1

Next == Answer \/ Digress

Spec == Init /\ [][Next]_vars

\* extractor outputs after the terminal marker: nothing, values for fields
\* the record already holds, and a JSON null for the returning-patient flag
DoneOutputs ==
  { NoExtraction,
    [form |-> "json",
     obj |-> << <<"doctor", "Any">>, <<"problem", "fever">>, <<"email", "x@y.org">>,
                <<"phone", "9876543210">> >>],
    [form |-> "json", obj |-> << <<"returning_patient", None>> >>] }

\* the caller goes on typing after the terminal marker: any reply
AfterDone ==
  \E q \in Replies, done \in BOOLEAN, raw \in DoneOutputs :
     /\ next_step = "done"
     /\ Turn(q, done, raw)
     /\ UNCHANGED digress

\* the caller answers each question until the terminal marker is emitted
Intake ==
  \E q \in WellFormed(next_step) :
     /\ Turn(q, FALSE, NoExtraction)
     /\ UNCHANGED digress

NextDone == Intake \/ AfterDone

SpecDone == Init /\ [][NextDone]_vars

\* The inferencer alone, on every reply and every context marker.
Infer(q, c) ==
  /\ input_text' = q
  /\ context_step' = c
  /\ inline' = infer_inline_updates(q, c)
  /\ UNCHANGED <<conversation, sessions, booked, loop, calendar>>

NextInfer == \E q \in Replies, c \in Markers \cup {None} : Infer(q, c)

SpecInfer == Init /\ [][NextInfer]_vars

\* session_key that files every thread under one key
session_key_shared(thread_id) == "default"

\* the key of SESSION_STORE a thread's session is kept under
session_key(thread_id) == thread_id

\* SESSION_STORE.setdefault(thread_id, {"patient": PatientIntake()})
stored(t) ==
  IF session_key(t) \in DOMAIN SESSION_STORE THEN SESSION_STORE[session_key(t)]
  ELSE [patient |-> PatientIntake]

\* the handler of /stream from the graph run to the response, for the session
\* it read: the graph state is built from the reply and that record only
respond(t, q, raw, session) ==
  \E r \in {intake_graph(graph_input(q, session.patient, None, FALSE), raw)} :
     /\ thread' = t
     /\ pre' = session.patient
     /\ extracted' = candidates(raw, None)
     /\ offered' = offered_keys(raw)
     /\ input_text' = q
     /\ context_step' = None
     /\ inline' = infer_inline_updates(q, None)
     /\ booking_done' = FALSE
     /\ error' = r.error
     /\ IF r.error = ""
        THEN /\ SESSION_STORE' =
                  (session_key(t) :> [patient |-> r.state.patient]) @@ SESSION_STORE
             /\ patient' = r.state.patient
             /\ next_step' = r.state.next_step
             /\ message' = IF r.state.message # <<>> THEN r.state.message ELSE <<"Okay.">>
             /\ returned' = [returned EXCEPT ![t] = r.state.next_step]
        ELSE /\ SESSION_STORE' = (session_key(t) :> [patient |-> r.mutated]) @@ SESSION_STORE
             /\ patient' = r.mutated
             /\ next_step' = None
             /\ message' = <<"agent_error: ", r.error>>
             /\ UNCHANGED returned
     /\ UNCHANGED <<digress, pos, booked>>

\* GET /stream: one turn for thread_id t with reply q, run from the read of
\* the session to the response without yielding
stream(t, q, raw) ==
  \E session \in {stored(t)} :
     /\ respond(t, q, raw, session)
     /\ UNCHANGED <<loop, calendar>>

\* what a client sends: anything to open, then the answer to the question
\* its last response asked
ClientReplies(t) ==
  IF returned[t] = None THEN {"", "fever", "9876543210"} ELSE WellFormed(returned[t])

NextStream ==
  \E t \in Threads : \E q \in ClientReplies(t), raw \in StreamOutputs :
     stream(t, q, raw)

SpecStream == Init /\ [][NextStream]_vars

\* the same clients when the extractor finds nothing; every thread keeps
\* being served
StreamAnswer(t) == \E q \in ClientReplies(t) : stream(t, q, NoExtraction)

NextStreamAnswer == \E t \in Threads : StreamAnswer(t)

SpecStreamFair ==
  /\ Init
  /\ [][NextStreamAnswer]_vars
  /\ \A t \in Threads : WF_vars(StreamAnswer(t))

\* POST /appointments/book of fastapi_app for thread t: appends the payload
\* to data/bookings.xlsx and confirms; no session is read or written
fastapi_app_book(t) ==
  /\ bookings' = bookings \cup {<<"data/bookings.xlsx", t>>}
  /\ UNCHANGED <<conversation, sessions, inline, input_text, context_step,
                 api_SESSION_STORE, loop, calendar>>

\* the doctor and date a booking payload carries
BookedDoctor == "Dr. Smith"
BookedDate == "2025-09-20"

\* the booking rows the two files hold together at most
MaxBookings == 2

\* book of api.routes.scheduling: appends the row to storage/bookings.xlsx,
\* or to storage/bookings.csv when the workbook cannot be read or written
\* (excel_ok false); a session of the payload's thread_id in
\* api.state.SESSION_STORE gets booking_done and the booked facts
book(payload, excel_ok) ==
  LET normalized(x) == IF x # <<>> /\ 0 <= x[1] /\ x[1] <= 23 /\ 0 <= x[2] /\ x[2] <= 59
                       THEN x ELSE <<>>
      row == [doctor |-> payload.doctor, appointment_date |-> payload.date,
              appointment_start |-> normalized(payload.start),
              appointment_end |-> normalized(payload.end)]
      tid == payload.thread_id
  IN /\ called # "_generate_slots"
     /\ Len(BOOKINGS_XLSX.rows) + Len(BOOKINGS_CSV.rows) < MaxBookings
     /\ IF excel_ok
        THEN /\ BOOKINGS_XLSX' = [exists |-> TRUE, rows |-> Append(BOOKINGS_XLSX.rows, row)]
             /\ UNCHANGED BOOKINGS_CSV
        ELSE /\ BOOKINGS_CSV' = [exists |-> TRUE, rows |-> Append(BOOKINGS_CSV.rows, row)]
             /\ UNCHANGED BOOKINGS_XLSX
     /\ bookings' = bookings \cup {<<"storage/bookings.xlsx", tid>>}
     /\ IF tid # "" /\ tid \in DOMAIN api_SESSION_STORE
        THEN api_SESSION_STORE' =
               [api_SESSION_STORE EXCEPT ![tid] =
                  [booking_done |-> TRUE,
                   patient |->
                     IF @.patient = None THEN None
                     ELSE [@.patient EXCEPT
                             !.doctor = IF payload.doctor \notin {None, ""}
                                        THEN payload.doctor ELSE @,
                             !.appointment_date = IF payload.date # "" THEN payload.date
                                                  ELSE @,
                             !.appointment_start = IF row.appointment_start # <<>>
                                                   THEN row.appointment_start ELSE @,
                             !.appointment_end = IF row.appointment_end # <<>>
                                                 THEN row.appointment_end ELSE @]]]
        ELSE UNCHANGED api_SESSION_STORE
     /\ called' = "book"
     /\ UNCHANGED <<conversation, sessions, inline, input_text, context_step, loop,
                    request, free_windows, busy, free_after_busy, slots, cursor>>

\* book for thread t with the doctor and date the conversation agreed on
scheduling_book(t) ==
  book([thread_id |-> t, doctor |-> BookedDoctor, date |-> BookedDate,
        start |-> <<>>, end |-> <<>>], TRUE)

\* threads served by /stream with the booking collaborator confirming slots
NextBook ==
  \E t \in Threads : StreamAnswer(t) \/ fastapi_app_book(t) \/ scheduling_book(t)

SpecBook == Init /\ [][NextBook]_vars

\* candidates no validation accepts: a date-shaped reply that is no calendar
\* date, an e-mail EmailStr rejects, a phone of five digits
MalformedReplies == {"1990-99-01"}

MalformedOutputs ==
  { [form |-> "json", obj |-> << <<"email", "bob@invalid">> >>],
    [form |-> "json", obj |-> << <<"phone", "12345">> >>],
    [form |-> "json", obj |-> << <<"doctor", "Any">>, <<"email", "bob@invalid">> >>] }

\* one thread served by /stream whose replies and extractor outputs may
\* carry such candidates
NextMalformed ==
  \E q \in ClientReplies("t1") \cup MalformedReplies,
     raw \in MalformedOutputs \cup {NoExtraction} : stream("t1", q, raw)

SpecMalformed == Init /\ [][NextMalformed]_vars

\* the call to the oracle fails or times out
OracleDown == [form |-> "raises", obj |-> <<>>]

\* oracle texts of every shape: an object, a fenced one, one inside prose,
\* JSON that is no object (a number, an array), a key outside the schema,
\* garbage
OracleTexts ==
  { [form |-> "json", obj |-> << <<"problem", "fever">> >>],
    [form |-> "fenced", obj |-> << <<"doctor", "Dr. Smith">> >>],
    [form |-> "embedded", obj |-> << <<"phone", "9876543210">> >>],
    [form |-> "number", obj |-> <<>>],
    [form |-> "array", obj |-> <<>>],
    [form |-> "json", obj |-> << <<"notes", "call back">> >>],
    [form |-> "garbage", obj |-> <<>>] }

\* one thread served by /stream while the oracle fails or answers with any
\* of these texts
NextOracle ==
  \E q \in ClientReplies("t1"), raw \in OracleTexts \cup {OracleDown, NoExtraction} :
     stream("t1", q, raw)

SpecOracle == Init /\ [][NextOracle]_vars

\* available_slots up to the call of _generate_slots: the date check, the
\* working hours, the busy intervals of the doctor on the date from the
\* workbook (the CSV only when there is no workbook), the subtraction
available_slots(doctor, date, duration_min, step_min) ==
  LET df == IF BOOKINGS_XLSX.exists THEN BOOKINGS_XLSX.rows
            ELSE IF BOOKINGS_CSV.exists THEN BOOKINGS_CSV.rows ELSE <<>>
      on_date == SelectSeq(df, LAMBDA r : r.appointment_date = date)
      of_doctor == IF lower(strip(doctor)) \notin {"any", "any doctor"}
                   THEN SelectSeq(on_date, LAMBDA r : r.doctor = doctor) ELSE on_date
      timed == SelectSeq(of_doctor, LAMBDA r : r.appointment_start # <<>>
                                                  /\ r.appointment_end # <<>>)
      working_hours == << <<t2min(<<9, 0>>), t2min(<<17, 0>>)>> >>
      busy_read == [i \in 1..Len(timed) |->
                      <<t2min(timed[i].appointment_start), t2min(timed[i].appointment_end)>>]
      free == interval_subtract(working_hours, busy_read)
  IN /\ called # "_generate_slots"
     /\ request' = [doctor |-> doctor, date |-> date, duration_min |-> duration_min,
                    step_min |-> step_min]
     /\ IF strptime(date) = <<>>
        THEN /\ called' = "422"
             /\ UNCHANGED <<free_windows, busy, free_after_busy, slots, cursor>>
        ELSE /\ called' = "_generate_slots"
             /\ free_windows' = working_hours
             /\ busy' = busy_read
             /\ free_after_busy' = free
             /\ slots' = <<>>
             /\ cursor' = [w |-> 1, t |-> IF free = <<>> THEN 0 ELSE free[1][1]]
     /\ UNCHANGED <<conversation, sessions, inline, input_text, context_step, booked, loop,
                    BOOKINGS_XLSX, BOOKINGS_CSV>>

\* the slots one call may hold in memory
MaxSlots == 12

\* one test of the while condition of _generate_slots, with the loop body
\* when it holds and the move to the next window (or the return) when not
generate_slots ==
  LET duration == request.duration_min
      step == request.step_min
  IN /\ called = "_generate_slots"
     /\ IF cursor.w > Len(free_after_busy)
        THEN /\ called' = "returned"
             /\ UNCHANGED <<slots, cursor>>
        ELSE IF cursor.t + duration <= free_after_busy[cursor.w][2]
        THEN /\ Len(slots) < MaxSlots
             /\ slots' = Append(slots, <<min2t(cursor.t), min2t(cursor.t + duration)>>)
             /\ cursor' = [cursor EXCEPT !.t = @ + step]
             /\ UNCHANGED called
        ELSE /\ cursor' = [w |-> cursor.w + 1,
                           t |-> IF cursor.w + 1 <= Len(free_after_busy)
                                 THEN free_after_busy[cursor.w + 1][1] ELSE 0]
             /\ UNCHANGED <<called, slots>>
     /\ UNCHANGED <<conversation, sessions, inline, input_text, context_step, booked, loop,
                    BOOKINGS_XLSX, BOOKINGS_CSV, request, free_windows, busy,
                    free_after_busy>>

\* clients book hours of two doctors, with the workbook writable or not,
\* and ask for the slots of a doctor with any integer duration and step
NextCalendar ==
  \/ \E doctor \in {"Dr. Smith", "Dr. Lee"}, excel_ok \in BOOLEAN,
        hours \in {<<9, 10>>, <<10, 12>>, <<16, 17>>} :
        book([thread_id |-> "", doctor |-> doctor, date |-> BookedDate,
              start |-> <<hours[1], 0>>, end |-> <<hours[2], 0>>], excel_ok)
  \/ \E doctor \in {"Dr. Smith", "any"}, date \in {BookedDate, "1990-99-01"},
        duration_min \in {-60, 0, 60}, step_min \in {-60, 0, 60} :
        available_slots(doctor, date, duration_min, step_min)
  \/ generate_slots

SpecCalendar == Init /\ [][NextCalendar]_vars

\* every call that has started goes on running
SpecCalendarFair == SpecCalendar /\ WF_vars(generate_slots)

\* minutes since midnight the windows of the interval arithmetic range over
MaxMinute == 5

\* the lists of n intervals with start < end
IntervalLists(n) ==
  [1..n -> {iv \in (0..MaxMinute) \X (0..MaxMinute) : iv[1] < iv[2]}]

\* _interval_subtract applied once to the lists drawn
Subtract ==
  /\ called = ""
  /\ called' = "_interval_subtract"
  /\ free_after_busy' = interval_subtract(free_windows, busy)
  /\ UNCHANGED <<conversation, sessions, inline, input_text, context_step, booked, loop,
                 BOOKINGS_XLSX, BOOKINGS_CSV, request, free_windows, busy, slots, cursor>>

InitSubtract ==
  /\ Fresh
  /\ BOOKINGS_XLSX = [exists |-> FALSE, rows |-> <<>>]
  /\ BOOKINGS_CSV = [exists |-> FALSE, rows |-> <<>>]
  /\ called = ""
  /\ request = [doctor |-> "", date |-> "", duration_min |-> 30, step_min |-> 30]
  /\ \/ \E n \in 0..2, k \in 0..2 :
          free_windows \in IntervalLists(n) /\ busy \in IntervalLists(k)
     \/ free_windows \in IntervalLists(1) /\ busy \in IntervalLists(3)
  /\ free_after_busy = <<>>
  /\ slots = <<>>
  /\ cursor = [w |-> 1, t |-> 0]

SpecSubtract == InitSubtract /\ [][Subtract]_vars

\* the requests the server holds unanswered at one time
MaxPending == 2

\* await_points of a handler that awaits the graph run
await_points_at_invoke == {"invoke"}

\* the steps at which the handler of /stream awaits and yields the event
\* loop: it is an async def that calls intake_graph.invoke synchronously
await_points == {}

\* a client of thread t sends a request; the server accepts it
Arrive(t, q) ==
  /\ Cardinality(pending) < MaxPending
  /\ pending' = pending \cup {[thread |-> t, q |-> q, at |-> "start",
                               session |-> [patient |-> PatientIntake]]}
  /\ UNCHANGED <<conversation, sessions, inline, input_text, context_step, booked,
                 calendar>>

\* the event loop runs the handler of request r up to its next await point,
\* or to its response when there is none
Resume(r) ==
  IF r.at = "start" /\ "invoke" \in await_points
  THEN /\ pending' = (pending \ {r})
                        \cup {[r EXCEPT !.at = "invoke", !.session = stored(r.thread)]}
       /\ UNCHANGED <<conversation, sessions, inline, input_text, context_step, booked,
                 calendar>>
  ELSE /\ respond(r.thread, r.q, NoExtraction,
                  IF r.at = "invoke" THEN r.session ELSE stored(r.thread))
       /\ pending' = pending \ {r}
       /\ UNCHANGED calendar

\* two threads whose requests arrive at any time, also while earlier ones
\* are unanswered
NextLoop ==
  \/ \E t \in Threads : \E q \in ClientReplies(t) : Arrive(t, q)
  \/ \E r \in pending : Resume(r)

SpecLoop == Init /\ [][NextLoop]_vars

\* extractor outputs that carry a date of birth, one before and one after
\* today's month and day
DobOutputs ==
  { [form |-> "json", obj |-> << <<"dob", "1990-06-15">> >>],
    [form |-> "json", obj |-> << <<"dob", "1990-12-25">> >>] }

\* one thread served by /stream whose caller may type a date and whose
\* extractor may return a date of birth or fail
NextDob ==
  \E q \in ClientReplies("t1") \cup {"2025-09-20"},
     raw \in DobOutputs \cup {OracleDown, NoExtraction} : stream("t1", q, raw)

SpecDob == Init /\ [][NextDob]_vars

\* the record node_extract leaves for reply q, marker c and extractor mapping
\* data: the merge alone, no stage run
merged(p, q, c, data) ==
  LET r == node_extract(graph_input(q, p, c, FALSE), [form |-> "json", obj |-> data])
  IN IF r.error = "" THEN r.state.patient ELSE r.mutated

\* records a conversation passes through, from the empty one to complete ones
MergeRecords ==
  { PatientIntake,
    [PatientIntake EXCEPT !.doctor = "any doctor", !.appointment_duration_min = 60],
    [PatientIntake EXCEPT !.doctor = "Dr. Smith", !.problem = "fever",
       !.problem_description = "3 days, mild.", !.appointment_duration_min = 60],
    [PatientIntake EXCEPT !.doctor = "any doctor", !.problem = "fever",
       !.problem_description = "3 days, mild.", !.returning_patient = PyFalse,
       !.appointment_duration_min = 60, !.insurance_carrier = "self-pay",
       !.insurance_member_id = "", !.insurance_group = ""],
    [PatientIntake EXCEPT !.doctor = "Dr. Smith", !.problem = "fever",
       !.problem_description = "3 days, mild.", !.returning_patient = PyFalse,
       !.appointment_duration_min = 60, !.insurance_carrier = "Aetna",
       !.insurance_member_id = "M123", !.insurance_group = "G456",
       !.email = "a@b.com", !.phone = "9876543210"],
    [PatientIntake EXCEPT !.doctor = "any doctor", !.problem = "fever",
       !.problem_description = "3 days, mild.", !.returning_patient = PyTrue,
       !.appointment_duration_min = 30, !.email = "a@b.com", !.phone = "9876543210",
       !.appointment_date = "2025-09-20"] }

\* The merge alone: one application of node_extract's merge to a record, for
\* every reply, context marker and extractor output.
Merge(q, c, raw) ==
  /\ input_text = None
  /\ pre' = patient
  /\ patient' = merged(patient, q, c, safe_json_loads(raw))
  /\ extracted' = candidates(raw, c)
  /\ offered' = offered_keys(raw)
  /\ input_text' = q
  /\ context_step' = c
  /\ inline' = infer_inline_updates(q, c)
  /\ UNCHANGED <<next_step, message, booking_done, error, digress, pos, sessions, booked,
                 loop, calendar>>

InitMerge ==
  /\ patient \in MergeRecords
  /\ pre = PatientIntake
  /\ extracted = <<>>
  /\ offered = {}
  /\ next_step = None
  /\ message = <<>>
  /\ inline = EmptyDict
  /\ input_text = None
  /\ context_step = None
  /\ booking_done = FALSE
  /\ error = ""
  /\ thread = None
  /\ SESSION_STORE = [t \in {} |-> None]
  /\ returned = [t \in Threads |-> None]
  /\ digress = 0
  /\ pos = 0
  /\ bookings = {}
  /\ api_SESSION_STORE = [t \in {} |-> None]
  /\ pending = {}
  /\ BOOKINGS_XLSX = [exists |-> FALSE, rows |-> <<>>]
  /\ BOOKINGS_CSV = [exists |-> FALSE, rows |-> <<>>]
  /\ called = ""
  /\ request = [doctor |-> "", date |-> "", duration_min |-> 30, step_min |-> 30]
  /\ free_windows = <<>>
  /\ busy = <<>>
  /\ free_after_busy = <<>>
  /\ slots = <<>>
  /\ cursor = [w |-> 1, t |-> 0]

NextMerge ==
  \E q \in Replies, c \in Markers \cup {None}, raw \in LLMOutputs : Merge(q, c, raw)

SpecMerge == InitMerge /\ [][NextMerge]_vars

TypeOK ==
  /\ DOMAIN patient = Fields
  /\ next_step \in Markers \cup {None}

\* ------------------------------------------------------------- properties
InsuranceMarkers ==
  {"ask_insurance_carrier", "ask_insurance_member_id", "ask_insurance_group"}

InsuranceFields == {"insurance_carrier", "insurance_member_id", "insurance_group"}

\* the fields only node_extract writes
MergeOnlyFields ==
  {"name", "dob", "location", "problem", "problem_description", "email", "phone",
   "appointment_date"}

\* a turn has run and raised nothing
turn_done == input_text # None /\ error = ""

\* the first unpopulated facet in the order problem label, problem
\* description, returning status, doctor, appointment date, email, phone
first_unmet(p) ==
  IF ~truthy(p.problem) THEN "ask_problem"
  ELSE IF ~truthy(p.problem_description) THEN "ask_problem_details"
  ELSE IF p.returning_patient = None THEN "ask_returning"
  ELSE IF ~truthy(p.doctor) THEN "ask_doctor"
  ELSE IF ~truthy(p.appointment_date) THEN "ask_date"
  ELSE IF ~truthy(p.email) THEN "ask_email"
  ELSE IF ~truthy(p.phone) THEN "ask_phone"
  ELSE None

\* C1: with booking_done false, the marker a turn emits names the first
\* unpopulated facet in the order problem label, problem description,
\* returning status, doctor, appointment date, email, phone (no later stage
\* of the turn replaces the marker of the stage that found its field unset).
C1_FirstUnmetFacetAsked ==
  (turn_done /\ ~booking_done /\ first_unmet(patient) # None)
     => next_step = first_unmet(patient)

\* C2: replaying "", "fever", "3 days, mild", "no", "any", "2025-09-20",
\* "a@b.com", "9876543210" from the empty record without booking asks problem
\* label, problem description, returning status (false, 60 minutes), doctor
\* ("any doctor"), date, email, phone in this order and ends with the ready
\* message and marker "done"; no turn of the replay asks for insurance.
C2_ScenarioOrder ==
  /\ pos = 1 => next_step = "ask_problem"
  /\ pos = 2 => next_step = "ask_problem_details"
  /\ pos = 3 => next_step = "ask_returning"
  /\ pos = 4 => /\ next_step = "ask_doctor"
                /\ patient.returning_patient = PyFalse
                /\ patient.appointment_duration_min = 60
  /\ pos = 5 => next_step = "ask_date" /\ patient.doctor = "any doctor"
  /\ pos = 6 => next_step = "ask_email"
  /\ pos = 7 => next_step = "ask_phone"
  /\ pos = 8 => next_step = "done" /\ message = msg_ready("any doctor", "2025-09-20")
  /\ pos >= 1 => next_step \notin InsuranceMarkers

C4_MarkerFedBack ==
  [][thread' \in Threads => context_step' = returned[thread']]_vars

\* C5: when every reply answers the question just asked and the extractor
\* returns nothing, every thread eventually receives the marker "done".
C5_ReachesDone == \A t \in Threads : <>(returned[t] = "done")

\* C6 (as claimed): a reply that is exactly a YYYY-MM-DD date is inferred as
\* appointment_date under ask_date and as dob under every other marker.
C6_DateIsDobOutsideAskDate ==
  (input_text # None /\ date_fullmatch(input_text)) =>
     inline = IF context_step = "ask_date" THEN "appointment_date" :> input_text
              ELSE "dob" :> input_text

\* C6 (amended): such a reply is inferred as appointment_date under ask_date;
\* under ask_problem, ask_problem_details, ask_insurance_carrier,
\* ask_insurance_member_id and ask_insurance_group it is taken as that
\* question's answer (problem, problem_description with a closing period,
\* insurance_carrier, insurance_member_id, insurance_group); under every
\* other marker, and with no marker, it is inferred as dob; always one key.
C6_DateByContext ==
  (input_text # None /\ date_fullmatch(input_text)) =>
     inline =
       CASE context_step = "ask_date" -> "appointment_date" :> input_text
         [] context_step = "ask_problem" -> "problem" :> input_text
         [] context_step = "ask_problem_details" ->
              "problem_description" :> append_dot(input_text)
         [] context_step = "ask_insurance_carrier" -> "insurance_carrier" :> input_text
         [] context_step = "ask_insurance_member_id" ->
              "insurance_member_id" :> input_text
         [] context_step = "ask_insurance_group" -> "insurance_group" :> input_text
         [] OTHER -> "dob" :> input_text

\* a date that is no birth-date pattern match, read as dob outside ask_date
C6_Witness ==
  /\ input_text = "1850-01-01"
  /\ context_step = "ask_returning"
  /\ inline = ("dob" :> "1850-01-01")

\* C7: appointment_date changes only in a turn whose marker is ask_date.
C7_DateOnlyUnderAskDate ==
  (input_text # None /\ patient.appointment_date # pre.appointment_date)
     => context_step = "ask_date"

\* C8: at the end of every turn in which insurance_carrier is a self-pay
\* token, the carrier is the literal "self-pay", member id and group are ""
\* and neither of them is asked for.
C8_SelfPayCascade ==
  (turn_done /\ carrier_of(patient) \in self_pay_tokens) =>
     /\ patient.insurance_carrier = "self-pay"
     /\ patient.insurance_member_id = ""
     /\ patient.insurance_group = ""
     /\ next_step \notin {"ask_insurance_member_id", "ask_insurance_group"}

\* C9: a turn that runs with booking_done false emits no insurance question.
C9_NoInsuranceBeforeBooking ==
  (turn_done /\ ~booking_done) => next_step \notin InsuranceMarkers

\* C10: for a returning patient no turn emits an insurance question, with or
\* without booking_done; email and then phone are still asked while unset:
\* once doctor, problem and description are there, an unset email is asked
\* for, then an unset phone, and "done" is not emitted before both are set.
C10_ReturningSkipsInsurance ==
  (turn_done /\ patient.returning_patient = PyTrue) =>
     /\ next_step \notin InsuranceMarkers
     /\ next_step = "done" => truthy(patient.email) /\ truthy(patient.phone)
     /\ (truthy(patient.doctor) /\ truthy(patient.problem)
           /\ truthy(patient.problem_description)) =>
          /\ ~truthy(patient.email) => next_step = "ask_email"
          /\ (truthy(patient.email) /\ ~truthy(patient.phone)) => next_step = "ask_phone"

\* a booked returning patient without insurance data is asked for the phone
C10_Witness ==
  /\ turn_done
  /\ patient.returning_patient = PyTrue
  /\ booking_done
  /\ ~truthy(patient.insurance_carrier)
  /\ next_step = "ask_phone"

\* the threads for which a booking was confirmed
booked_threads == {b[2] : b \in bookings}

\* C11: a /stream turn of thread t runs with booking_done true if a booking
\* of t was confirmed before it, and with booking_done false otherwise.
C11_BookingUnlocksInsurance ==
  [][bookings' = bookings => booking_done' = (thread' \in booked_threads)]_vars

\* C12: a turn that emits "done" leaves doctor, problem, problem_description,
\* email, phone and appointment_date populated and returning_patient known,
\* and for a new patient a carrier that is self-pay or comes with both
\* insurance_member_id and insurance_group.
C12_DoneMeansComplete ==
  (turn_done /\ next_step = "done") =>
     /\ \A f \in {"doctor", "problem", "problem_description", "email", "phone",
                   "appointment_date"} : truthy(patient[f])
     /\ patient.returning_patient # None
     /\ patient.returning_patient = PyFalse =>
          /\ truthy(patient.insurance_carrier)
          /\ \/ carrier_of(patient) \in self_pay_tokens
             \/ /\ truthy(patient.insurance_member_id)
                /\ truthy(patient.insurance_group)

\* an insured new patient reaches "done"
C12_Witness ==
  /\ turn_done
  /\ next_step = "done"
  /\ patient.returning_patient = PyFalse
  /\ carrier_of(patient) \notin self_pay_tokens
  /\ patient.insurance_group = "G456"

\* the field a question marker guards
guarded_field(step) ==
  CASE step = "ask_doctor" -> "doctor"
    [] step = "ask_problem" -> "problem"
    [] step = "ask_problem_details" -> "problem_description"
    [] step = "ask_returning" -> "returning_patient"
    [] step = "ask_email" -> "email"
    [] step = "ask_phone" -> "phone"
    [] step = "ask_date" -> "appointment_date"
    [] step = "ask_insurance_carrier" -> "insurance_carrier"
    [] step = "ask_insurance_member_id" -> "insurance_member_id"
    [] step = "ask_insurance_group" -> "insurance_group"

\* C13: the field guarded by the question a turn emits is empty at the end
\* of that turn (unknown, for ask_returning), also when other fields arrived
\* before their question in the stage order.
C13_NoQuestionForPopulatedField ==
  (turn_done /\ next_step \in Markers \ {"done"}) =>
     IF next_step = "ask_returning" THEN patient.returning_patient = None
     ELSE ~truthy(patient[guarded_field(next_step)])

\* email and phone arrived before their questions; the description is asked
C13_Witness ==
  /\ turn_done
  /\ next_step = "ask_problem_details"
  /\ truthy(patient.email)
  /\ truthy(patient.phone)
  /\ ~truthy(patient.problem_description)

\* C14: once returning_patient is true or false, every later turn leaves it
\* as it is and emits no ask_returning, whatever the reply and whatever the
\* extractor returns over its key set.
C14_ReturningKeptNotReasked ==
  (input_text # None /\ pre.returning_patient # None) =>
     /\ patient.returning_patient = pre.returning_patient
     /\ next_step # "ask_returning"

\* a new patient says "no" again to a later question
C14_Witness ==
  /\ turn_done
  /\ pre.returning_patient = PyFalse
  /\ input_text = "no"
  /\ context_step # "ask_returning"
  /\ patient.returning_patient = PyFalse

C16_NoDurationBeforeReturning ==
  (turn_done /\ patient.returning_patient = None) =>
     patient.appointment_duration_min = NoneInt

\* the raw null-preference tokens of the doctor question
raw_doctor_tokens == {"any", "no", "none", "na"}

\* C17: a reply any, no, none or na to the doctor question leaves doctor equal
\* to "any doctor", and at the end of every turn a populated doctor is none
\* of these tokens (trimmed, case-insensitive), whichever source wrote it.
C17_DoctorNeverRawToken ==
  input_text # None =>
     /\ (context_step = "ask_doctor" /\ lower(strip(input_text)) \in raw_doctor_tokens)
           => patient.doctor = "any doctor"
     /\ truthy(patient.doctor) => lower(strip(patient.doctor)) \notin raw_doctor_tokens

C19_MalformedDobNotStored ==
  (input_text # None /\ truthy(patient.dob)) => strptime(patient.dob) # <<>>

\* C20: a candidate e-mail that fails the syntax check or a candidate phone
\* with fewer than 10 digits is not written: every turn completes without
\* error, a stored e-mail is valid and a stored phone has at least 10 digits.
C20_InvalidContactNotWritten ==
  /\ error = ""
  /\ truthy(patient.email) => valid_email(patient.email)
  /\ truthy(patient.phone) => count_digits(keep_digits_plus(patient.phone)) >= 10

\* C21: when the call to the oracle fails or times out the turn behaves as
\* with an empty extraction: no error of the oracle call reaches the caller.
C21_OracleFailureAbsorbed == error # OracleFailure

\* C22: whatever text the oracle returns, extraction yields a mapping and
\* the turn completes without raising while reading it.
C22_AnyTextYieldsMapping == error \notin {"TypeError", "AttributeError", "ValueError"}

\* C23: problem_description changes only in a turn whose context marker is
\* ask_problem_details, and under the marker ask_date the extractor's dob is
\* never written: dob changes there only to the inferencer's value.
C23_ContextGuards ==
  input_text # None =>
     /\ patient.problem_description # pre.problem_description
           => context_step = "ask_problem_details"
     /\ (context_step = "ask_date" /\ patient.dob # pre.dob)
           => ("dob" \in DOMAIN inline /\ patient.dob = inline["dob"])

\* under ask_date the extractor offered a description and a dob for a record
\* that has no dob, and neither was written
C23_Witness ==
  /\ turn_done
  /\ context_step = "ask_date"
  /\ {"dob", "problem_description"} \subseteq offered
  /\ pre.dob = None
  /\ patient.dob = None
  /\ patient.problem_description = pre.problem_description

\* C24: whenever a turn emits the marker ask_problem_details, the record's
\* problem label is populated at the end of that turn.
C24_LabelBeforeDetails ==
  (turn_done /\ next_step = "ask_problem_details") => truthy(patient.problem)

\* a turn asks for the description of a problem whose label it holds
C24_Witness ==
  /\ turn_done
  /\ next_step = "ask_problem_details"
  /\ truthy(patient.problem)
  /\ ~truthy(patient.problem_description)

\* C25: insurance questions come in the order carrier, member id, group:
\* ask_insurance_member_id is emitted only when the carrier is populated and
\* not self-pay, and ask_insurance_group only when in addition the member id
\* is populated.
C25_InsuranceOrder ==
  (turn_done /\ next_step \in {"ask_insurance_member_id", "ask_insurance_group"}) =>
     /\ truthy(patient.insurance_carrier)
     /\ lower(strip(patient.insurance_carrier)) \notin {"", "self-pay", "self pay", "no", "none"}
     /\ next_step = "ask_insurance_group" =>
          (truthy(patient.insurance_member_id) /\ strip(patient.insurance_member_id) # "")

\* the group is asked of a caller whose carrier and member id are recorded,
\* in the turn after the member id was asked
C25_Witness ==
  /\ turn_done
  /\ context_step = "ask_insurance_member_id"
  /\ next_step = "ask_insurance_group"
  /\ patient.insurance_carrier = "Aetna"
  /\ patient.insurance_member_id = "M123"
  /\ ~truthy(patient.insurance_group)

\* the fields a bare "no" may change under a context marker
no_facet(step) ==
  CASE step = "ask_returning" -> {"returning_patient", "appointment_duration_min"}
    [] step = "ask_insurance_carrier" ->
         {"insurance_carrier", "insurance_member_id", "insurance_group"}
    [] step = "ask_doctor" -> {"doctor"}
    [] step = "ask_insurance_member_id" -> {"insurance_member_id"}
    [] step = "ask_insurance_group" -> {"insurance_group"}
    [] OTHER -> {}

populated(f, p) ==
  IF f \in IntFields THEN p[f] # NoneInt
  ELSE IF f = "returning_patient" THEN p[f] # None
  ELSE truthy(p[f])

\* the fields the post-booking self-pay short-circuit rewrote in the last turn
cascaded ==
  IF booking_done /\ patient.insurance_carrier = "self-pay"
  THEN {"insurance_carrier", "insurance_member_id", "insurance_group"} ELSE {}

\* C26: a bare "no" reply, the extractor finding nothing in it, changes only
\* the facet of the active context marker; under the markers ask_email,
\* ask_phone, ask_date, done and none it changes no already-populated field
\* (the post-booking self-pay rewrite of the insurance fields set aside).
C26_NoChangesOnlyItsFacet ==
  (turn_done /\ lower(strip(input_text)) = "no" /\ offered = {}) =>
     /\ no_facet(context_step) # {} =>
          \A f \in Fields \ (no_facet(context_step) \cup cascaded) : patient[f] = pre[f]
     /\ context_step \in {"ask_email", "ask_phone", "ask_date", "done", None} =>
          \A f \in Fields \ cascaded : populated(f, pre) => patient[f] = pre[f]

\* the fields a caller supplies; age and the duration are derived
caller_fields == Fields \ {"age", "appointment_duration_min"}

C28_InferencerWinsTies ==
  turn_done =>
     \A i \in 1..Len(extracted) :
        extracted[i][1] \in DOMAIN inline => patient[extracted[i][1]] = inline[extracted[i][1]]

\* C29: merging is idempotent: applying the merge again with the same
\* inferencer and extractor mappings and the same context marker gives the
\* record that one application gave.
C29_MergeIdempotent ==
  input_text # None => merged(patient, input_text, context_step, extracted) = patient

\* a merge in which the inferencer overwrote one field and the extractor
\* filled another
C29_Witness ==
  /\ input_text # None
  /\ \E f \in DOMAIN inline : f \in Fields /\ truthy(pre[f]) /\ patient[f] # pre[f]
  /\ \E i \in 1..Len(extracted) :
        /\ extracted[i][1] \notin DOMAIN inline
        /\ ~truthy(pre[extracted[i][1]])
        /\ patient[extracted[i][1]] = extracted[i][2]

\* C30: for every reply and every context marker the inferencer returns a
\* mapping whose keys are record fields or the yes/no sentinel, with at most
\* one key, except under ask_insurance_carrier, where it may return up to the
\* three keys insurance_carrier, insurance_member_id and insurance_group.
C30_InferKeys ==
  /\ DOMAIN inline \subseteq Fields \cup {"_yes_no"}
  /\ \/ Cardinality(DOMAIN inline) <= 1
     \/ /\ context_step = "ask_insurance_carrier"
        /\ DOMAIN inline \subseteq
             {"insurance_carrier", "insurance_member_id", "insurance_group"}

\* the carrier question answered with carrier, member id and group at once
C30_Witness ==
  /\ context_step = "ask_insurance_carrier"
  /\ input_text = "Aetna M123 G456"
  /\ inline = ("insurance_carrier" :> "Aetna") @@ ("insurance_member_id" :> "M123")
                 @@ ("insurance_group" :> "G456")

\* C31: a record built with a valid dob and no age gets the age "current
\* year minus birth year, minus one if today's (month, day) is before the
\* birth (month, day)"; so at the end of every turn a record with a valid dob
\* has an age.
C31_AgeFromDob ==
  (input_text # None /\ truthy(patient.dob) /\ strptime(patient.dob) # <<>>) =>
     /\ patient.age # NoneInt
     /\ pre.age = NoneInt =>
          patient.age = TodayY - strptime(patient.dob)[1]
                          - (IF \/ TodayM < strptime(patient.dob)[2]
                                \/ /\ TodayM = strptime(patient.dob)[2]
                                   /\ TodayD < strptime(patient.dob)[3]
                             THEN 1 ELSE 0)

\* C32: under every interleaving of turns on two different thread ids, a
\* turn on one thread never changes the record or the marker stored for the
\* other thread.
C32_ThreadsDoNotInterfere ==
  [][ \A t \in Threads :
        t # thread' => (stored(t)' = stored(t) /\ returned'[t] = returned[t]) ]_vars

\* both threads hold a record of their own, and they differ
C32_Witness ==
  /\ DOMAIN SESSION_STORE = Threads
  /\ SESSION_STORE["t1"] # SESSION_STORE["t2"]
  /\ thread = "t2"
  /\ truthy(SESSION_STORE["t1"].patient.problem)

\* C33: two turns on the same thread id never overlap: no handler is
\* suspended between its read of the stored record and its write-back, and
\* every turn starts from the record stored when it writes back, so no
\* turn's update is lost.
C33_TurnsDoNotOverlap ==
  [][ /\ \A r \in pending' : r.at = "start"
      /\ Cardinality(pending') < Cardinality(pending) => pre' = stored(thread').patient ]_vars

\* a turn of a thread was answered while another request of the same thread
\* was waiting, and it changed the record
C33_Witness ==
  /\ input_text # None
  /\ patient # pre
  /\ \E r \in pending : r.thread = thread

\* C34: the terminal marker is stable: once a turn has emitted "done", every
\* later turn that completes also emits "done" with the ready message,
\* whatever the reply.
C34_DoneIsStable ==
  [][ (turn_done /\ next_step = "done" /\ error' = "") =>
        /\ next_step' = "done"
        /\ message' = msg_ready(IF truthy(patient'.doctor) THEN patient'.doctor
                                ELSE "any doctor", patient'.appointment_date) ]_vars

\* C36: for every list of free windows and every list of busy intervals
\* (each with start < end), _interval_subtract returns intervals that lie
\* inside a free window, overlap no busy interval, and together cover every
\* minute of the free windows that is in no busy interval.
C36_SubtractIsExact ==
  called = "_interval_subtract" =>
     /\ \A i \in 1..Len(free_after_busy) :
          /\ \E j \in 1..Len(free_windows) :
               /\ free_windows[j][1] <= free_after_busy[i][1]
               /\ free_after_busy[i][2] <= free_windows[j][2]
          /\ \A k \in 1..Len(busy) : \A m \in 0..MaxMinute :
               ~(/\ free_after_busy[i][1] <= m /\ m < free_after_busy[i][2]
                 /\ busy[k][1] <= m /\ m < busy[k][2])
     /\ \A m \in 0..MaxMinute :
          ((\E j \in 1..Len(free_windows) : free_windows[j][1] <= m /\ m < free_windows[j][2])
             /\ (\A k \in 1..Len(busy) : ~(busy[k][1] <= m /\ m < busy[k][2])))
          => \E i \in 1..Len(free_after_busy) :
                free_after_busy[i][1] <= m /\ m < free_after_busy[i][2]

\* a window cut by three busy intervals given out of order, one of them
\* inside another, one reaching past the window's end, leaves two pieces
C36_Witness ==
  /\ called = "_interval_subtract"
  /\ free_windows = << <<0, 4>> >>
  /\ busy = << <<3, 5>>, <<1, 2>>, <<3, 4>> >>
  /\ free_after_busy = << <<0, 1>>, <<2, 3>> >>

\* C35: after book has stored a booking for doctor D on date X with a valid
\* start and end inside working hours, every later available_slots call for
\* D and X returns no slot that overlaps the booked interval.
C35_BookedHoursAreNotOffered ==
  called = "returned" =>
     \A file \in {BOOKINGS_XLSX, BOOKINGS_CSV} : \A b \in 1..Len(file.rows) :
        (file.rows[b].doctor = request.doctor /\ file.rows[b].appointment_date = request.date)
        => \A i \in 1..Len(slots) :
              ~(/\ t2min(slots[i][1]) < t2min(file.rows[b].appointment_end)
                /\ t2min(file.rows[b].appointment_start) < t2min(slots[i][2]))

\* C37: for every integer duration_min and step_min that the availability
\* endpoint accepts, slot generation terminates, and every slot it returns
\* has length duration_min and lies inside one free window.
C37_GenerationTerminatesInsideWindows ==
  /\ (called = "_generate_slots") ~> (called = "returned")
  /\ [](called = "returned" =>
          \A i \in 1..Len(slots) :
             /\ t2min(slots[i][2]) - t2min(slots[i][1]) = request.duration_min
             /\ \E w \in 1..Len(free_after_busy) : \A end \in 1..2 :
                  /\ free_after_busy[w][1] <= t2min(slots[i][end])
                  /\ t2min(slots[i][end]) <= free_after_busy[w][2])

====
